---- MODULE Spec2Model ----
(***************************************************************************)
(* Model of the cheatSheets repository:                                    *)
(*   - tailwind.config.cjs, the styling configuration (a CommonJS module   *)
(*     whose body is one assignment to module.exports), loaded by its      *)
(*     consumer and used to select the files to scan;                      *)
(*   - the React cheatsheet's code examples: the "data fetch on mount"     *)
(*     effect, the useWindowSize custom hook and the function Counter.     *)
(* Strings that the model has to look into (glob patterns, file names)     *)
(* are sequences of one-character strings.                                 *)
(***************************************************************************)
EXTENDS Integers, Sequences, FiniteSets, TLC

(***************************************************************************)
(* Bounds of the model.                                                    *)
(***************************************************************************)
\* how many times the configuration module is loaded
MaxRequires == 3
\* how many directories deep a scanned file lies below the project root
MaxDepth == 2
\* how many times a component is mounted (each mount runs its effect anew)
MaxMounts == 3
\* how many times the +1 button of a Counter is clicked
MaxClicks == 5
\* how many state updates wait for the next render
MaxQueue == 3

(***************************************************************************)
(* JavaScript values of the configuration, tagged with their typeof/class. *)
(***************************************************************************)
NoProps == [k \in {} |-> 0]

JsString(s) == [kind |-> "string", str |-> s, items |-> <<>>, props |-> NoProps]

JsArray(xs) == [kind |-> "array", str |-> "", items |-> xs, props |-> NoProps]

JsObject(ps) == [kind |-> "object", str |-> "", items |-> <<>>, props |-> ps]

JsFunction(name) == [kind |-> "function", str |-> name, items |-> <<>>, props |-> NoProps]

\* "./src/*/*.{astro,html,js,jsx,ts,tsx}": one directory level, no globstar
ContentGlobOneLevel ==
    << ".", "/", "s", "r", "c", "/", "*", "/", "*", ".", "{",
       "a", "s", "t", "r", "o", ",", "h", "t", "m", "l", ",", "j", "s", ",",
       "j", "s", "x", ",", "t", "s", ",", "t", "s", "x", "}" >>

\* "./src/**/*.{astro,html,js,jsx,ts,tsx}"
ContentGlob ==
    << ".", "/", "s", "r", "c", "/", "*", "*", "/", "*", ".", "{",
       "a", "s", "t", "r", "o", ",", "h", "t", "m", "l", ",", "j", "s", ",",
       "j", "s", "x", ",", "t", "s", ",", "t", "s", "x", "}" >>

\* the configuration with the media-query strategy
ModuleExportsMedia ==
    JsObject([ darkMode |-> JsString("media"),
               content  |-> JsArray(<< ContentGlob >>),
               theme    |-> JsObject([ extend |-> JsObject(NoProps) ]),
               plugins  |-> JsArray(<< >>) ])

\* the configuration with a colour override and a plugin
ModuleExportsExtended ==
    JsObject([ darkMode |-> JsString("class"),
               content  |-> JsArray(<< ContentGlob >>),
               theme    |-> JsObject([ extend |-> JsObject([ colors |-> JsString("brand") ]) ]),
               plugins  |-> JsArray(<< JsString("typography") >>) ])

\* the configuration with content given as a function and a fifth field
ModuleExportsComputed ==
    JsObject([ darkMode |-> JsString("class"),
               content  |-> JsFunction("content"),
               theme    |-> JsObject([ extend |-> JsObject(NoProps) ]),
               plugins  |-> JsArray(<< >>),
               prefix   |-> JsString("tw-") ])

\* the object literal assigned to module.exports
ModuleExports ==
    JsObject([ darkMode |-> JsString("class"),
               content  |-> JsArray(<< ContentGlob >>),
               theme    |-> JsObject([ extend |-> JsObject(NoProps) ]),
               plugins  |-> JsArray(<< >>) ])

(***************************************************************************)
(* Glob matching of the content patterns, as the consumer of the           *)
(* configuration applies them: brace alternatives, the globstar segment    *)
(* and the * wildcard within a segment.  dot tells whether the wildcards   *)
(* match names that begin with a dot; the configuration does not set it.   *)
(***************************************************************************)
RECURSIVE IndexOf(_, _, _)
\* least i >= from with s[i] = c, or 0
IndexOf(s, c, from) ==
    IF from > Len(s) THEN 0
    ELSE IF s[from] = c THEN from
    ELSE IndexOf(s, c, from + 1)

RECURSIVE SplitOn(_, _)
\* s.split(c)
SplitOn(s, c) ==
    LET i == IndexOf(s, c, 1)
    IN  IF i = 0 THEN << s >>
        ELSE << SubSeq(s, 1, i - 1) >> \o SplitOn(SubSeq(s, i + 1, Len(s)), c)

RECURSIVE BraceExpand(_)
\* the set of patterns a pattern with {a,b,...} alternatives stands for
BraceExpand(p) ==
    LET open == IndexOf(p, "{", 1)
        close == IndexOf(p, "}", open + 1)
    IN  IF open = 0 \/ close = 0 THEN { p }
        ELSE LET alts == SplitOn(SubSeq(p, open + 1, close - 1), ",")
                 pre  == SubSeq(p, 1, open - 1)
                 post == SubSeq(p, close + 1, Len(p))
             IN  UNION { BraceExpand(pre \o alts[i] \o post) : i \in 1..Len(alts) }

RECURSIVE MatchChars(_, _)
\* a segment pattern against a name: * stands for any run of characters
MatchChars(p, s) ==
    IF p = << >> THEN s = << >>
    ELSE IF Head(p) = "*"
         THEN MatchChars(Tail(p), s) \/ (s # << >> /\ MatchChars(p, Tail(s)))
         ELSE s # << >> /\ Head(s) = Head(p) /\ MatchChars(Tail(p), Tail(s))

\* a name the wildcards may stand for: not hidden, unless dot is set
Visible(name, dot) == dot \/ name = << >> \/ Head(name) # "."

\* one segment of a pattern against one name of a path
MatchSegment(p, name, dot) ==
    /\ name # << >>
    /\ MatchChars(p, name)
    /\ (p # << >> /\ Head(p) = ".") \/ Visible(name, dot)

RECURSIVE MatchSegments(_, _, _)
\* the segments of a pattern against the names of a path; ** stands for any
\* number of directories
MatchSegments(ps, names, dot) ==
    IF ps = << >> THEN names = << >>
    ELSE IF Head(ps) = << "*", "*" >>
         THEN \/ MatchSegments(Tail(ps), names, dot)
              \/ /\ names # << >>
                 /\ Visible(Head(names), dot)
                 /\ MatchSegments(ps, Tail(names), dot)
         ELSE /\ names # << >>
              /\ MatchSegment(Head(ps), Head(names), dot)
              /\ MatchSegments(Tail(ps), Tail(names), dot)

\* the segments of a pattern, relative to the project root
PatternSegments(p) ==
    LET segs == SplitOn(p, "/")
    IN  IF Len(segs) > 1 /\ Head(segs) = << "." >> THEN Tail(segs) ELSE segs

\* a path (the names from the project root down to the file) against a glob
GlobMatch(glob, path, dot) ==
    \E p \in BraceExpand(glob) : MatchSegments(PatternSegments(p), path, dot)

\* the file is scanned when some pattern of content matches it
Selected(config, path, dot) ==
    \E i \in 1..Len(config.props.content.items) :
        GlobMatch(config.props.content.items[i], path, dot)

(***************************************************************************)
(* The consumer's resolution of the theme and the plugins: the tokens of   *)
(* theme.extend override the default tokens, the configured plugins follow *)
(* the built-in ones.                                                      *)
(***************************************************************************)
DefaultTheme == [ colors |-> JsString("default colors"), spacing |-> JsString("default spacing") ]

DefaultPlugins == << JsString("corePlugins") >>

EffectiveTheme(config) ==
    LET extend == config.props.theme.props.extend.props
    IN  [ k \in DOMAIN DefaultTheme \cup DOMAIN extend |->
            IF k \in DOMAIN extend THEN extend[k] ELSE DefaultTheme[k] ]

EffectivePlugins(config) == DefaultPlugins \o config.props.plugins.items

(***************************************************************************)
(* The files of a project: directory and file names the scan can meet.     *)
(***************************************************************************)
DirNames == { << "s", "r", "c" >>, << "u", "i" >>, << ".", "h" >> }

FileNames ==
    { << "a", ".", "j", "s" >>,
      << "b", ".", "t", "s", "x" >>,
      << "c", ".", "t", "s" >>,
      << "d", ".", "j", "s", "x" >>,
      << "e", ".", "h", "t", "m", "l" >>,
      << "f", ".", "a", "s", "t", "r", "o" >>,
      << "g", ".", "c", "s", "s" >>,
      << "h", ".", "j", "s", ".", "m", "d" >>,
      << "i", ".", "m", "d", ".", "j", "s" >>,
      << "j", "s" >>,
      << ".", "k", ".", "j", "s" >> }

VARIABLES
    moduleCache,    \* the loaded module's exports, or NotLoaded
    requires,       \* how many times the module was loaded
    returned,       \* what each load returned
    dot,            \* the consumer's option: wildcards match hidden names
    cwd,            \* the directory the consumer's walk of the project is in
    scan            \* the last file the consumer looked at, and the outcome

configVars == << moduleCache, requires, returned, dot, cwd, scan >>

VARIABLES
    fetchMounted,   \* the component with the data-fetch effect is mounted
    fetchRuns,      \* how many times its effect has run
    fx,             \* per run of the effect: the closure and its promise chain
    data            \* the component's data state

fetchVars == << fetchMounted, fetchRuns, fx, data >>

VARIABLES
    winPc,          \* where the component using useWindowSize is in its life
    winRuns,        \* how many times the hook's effect has run
    listeners,      \* the runs whose onResize is a 'resize' listener of window
    size,           \* the hook's size state
    inner,          \* window's [innerWidth, innerHeight]
    resizePending,  \* a 'resize' event is waiting to be dispatched
    effectSets      \* per run of the effect: the setSize calls of its body

windowVars == << winPc, winRuns, listeners, size, inner, resizePending, effectSets >>

VARIABLES
    count,          \* function Counter: the count state of the last render
    queue,          \* function Counter: the updates queued by setCount
    clicks,         \* function Counter: invocations of the click handler
    classState,     \* class Counter: this.state
    classQueue,     \* class Counter: the states queued by this.setState
    classClicks     \* class Counter: invocations of the click handler

counterVars == << count, queue, clicks, classState, classQueue, classClicks >>

vars == << configVars, fetchVars, windowVars, counterVars >>

NotLoaded == JsString("<not loaded>")

NoScan == [path |-> << >>, selected |-> FALSE, done |-> FALSE]

\* what fetch('/api/data') can deliver
Payloads == { "payload A", "payload B" }

NoData == "no data"

\* an effect that has not run yet
NotRun == [pc |-> "not run", mounted |-> FALSE, cleaned |-> FALSE,
           fetched |-> NoData, setDataCalls |-> << >>]

InitConfig ==
    /\ moduleCache = NotLoaded
    /\ requires = 0
    /\ returned = << >>
    /\ dot \in BOOLEAN
    /\ cwd = << >>
    /\ scan = NoScan

InitFetch ==
    /\ fetchMounted = FALSE
    /\ fetchRuns = 0
    /\ fx = [i \in 1..MaxMounts |-> NotRun]
    /\ data = NoData

\* the sizes the window can have
WindowSizes == { << 800, 600 >>, << 1024, 768 >>, << 1024, 600 >> }

\* React.useState([0, 0])
InitialSize == << 0, 0 >>

InitWindow ==
    /\ winPc = "absent"
    /\ winRuns = 0
    /\ listeners = {}
    /\ size = InitialSize
    /\ inner = << 1024, 768 >>
    /\ resizePending = FALSE
    /\ effectSets = [i \in 1..MaxMounts |-> 0]

\* React.useState(0) and state = { count: 0 }
InitCounter ==
    /\ count = 0
    /\ queue = << >>
    /\ clicks = 0
    /\ classState = [count |-> 0]
    /\ classQueue = << >>
    /\ classClicks = 0

Init ==
    /\ InitConfig
    /\ InitFetch
    /\ InitWindow
    /\ InitCounter

\* require('./tailwind.config.cjs'): the module body runs on the first load
\* and after the consumer dropped the cached module (fresh); it assigns the
\* object literal to module.exports and touches nothing else
Require(fresh) ==
    /\ requires < MaxRequires
    /\ requires' = requires + 1
    /\ moduleCache' = IF moduleCache = NotLoaded \/ fresh THEN ModuleExports ELSE moduleCache
    /\ returned' = Append(returned, moduleCache')
    /\ UNCHANGED << dot, cwd, scan >>
    /\ UNCHANGED << fetchVars, windowVars, counterVars >>

\* the consumer's walk of the project goes down into a directory
Enter(dir) ==
    /\ moduleCache # NotLoaded
    /\ Len(cwd) < MaxDepth
    /\ cwd' = Append(cwd, dir)
    /\ scan' = NoScan
    /\ UNCHANGED << moduleCache, requires, returned, dot >>
    /\ UNCHANGED << fetchVars, windowVars, counterVars >>

\* the consumer decides whether a file of the directory is scanned for class
\* names, and the walk starts again from the project root
Scan(file) ==
    /\ moduleCache # NotLoaded
    /\ scan' = [path |-> cwd \o << file >>,
                selected |-> Selected(moduleCache, cwd \o << file >>, dot),
                done |-> TRUE]
    /\ cwd' = << >>
    /\ UNCHANGED << moduleCache, requires, returned, dot >>
    /\ UNCHANGED << fetchVars, windowVars, counterVars >>

NextConfig ==
    \/ \E fresh \in BOOLEAN : Require(fresh)
    \/ \E dir \in DirNames : Enter(dir)
    \/ \E file \in FileNames : Scan(file)

SpecConfig == Init /\ [][NextConfig]_vars

(***************************************************************************)
(* The "data fetch on mount" effect.  Each run of the effect has its own   *)
(* closure variable mounted and its own promise chain                      *)
(*   fetch('/api/data').then(r => r.json()).then(data => {...})            *)
(* whose callbacks the event loop runs one at a time, in any interleaving  *)
(* with the unmounting of the component.                                   *)
(***************************************************************************)
\* data => { setData(data); }, without the test of mounted
OnDataUnguarded(i, payload) ==
    /\ fx' = [fx EXCEPT ![i].pc = "done", ![i].fetched = payload,
                        ![i].setDataCalls = Append(@, payload)]
    /\ data' = payload

\* data => { if (mounted) setData(data); }
OnData(i, payload) ==
    IF fx[i].mounted
    THEN /\ fx' = [fx EXCEPT ![i].pc = "done", ![i].fetched = payload,
                             ![i].setDataCalls = Append(@, payload)]
         /\ data' = payload
    ELSE /\ fx' = [fx EXCEPT ![i].pc = "done", ![i].fetched = payload]
         /\ data' = data

\* the component mounts and its effect runs: let mounted = true; fetch(...)
\* (a remount that is not Strict Mode's starts from fresh state)
FetchMount(strict) ==
    /\ ~fetchMounted
    /\ fetchRuns < MaxMounts
    /\ fetchMounted' = TRUE
    /\ fetchRuns' = fetchRuns + 1
    /\ fx' = [fx EXCEPT ![fetchRuns + 1] =
                [pc |-> "fetching", mounted |-> TRUE, cleaned |-> FALSE,
                 fetched |-> NoData, setDataCalls |-> << >>]]
    /\ data' = IF strict /\ fetchRuns > 0 THEN data ELSE NoData
    /\ UNCHANGED << configVars, windowVars, counterVars >>

\* the component unmounts and the effect's cleanup runs: mounted = false
FetchCleanup ==
    /\ fetchMounted
    /\ fetchMounted' = FALSE
    /\ fx' = [fx EXCEPT ![fetchRuns].mounted = FALSE, ![fetchRuns].cleaned = TRUE]
    /\ UNCHANGED << fetchRuns, data >>
    /\ UNCHANGED << configVars, windowVars, counterVars >>

\* the response arrives: r => r.json() runs
OnResponse(i) ==
    /\ fx[i].pc = "fetching"
    /\ fx' = [fx EXCEPT ![i].pc = "parsing"]
    /\ UNCHANGED << fetchMounted, fetchRuns, data >>
    /\ UNCHANGED << configVars, windowVars, counterVars >>

\* the body is parsed: the second callback runs with the data
OnJson(i, payload) ==
    /\ fx[i].pc = "parsing"
    /\ OnData(i, payload)
    /\ UNCHANGED << fetchMounted, fetchRuns >>
    /\ UNCHANGED << configVars, windowVars, counterVars >>

\* the request fails or the body is no JSON: the chain rejects and neither
\* remaining callback runs
OnReject(i) ==
    /\ fx[i].pc \in { "fetching", "parsing" }
    /\ fx' = [fx EXCEPT ![i].pc = "rejected"]
    /\ UNCHANGED << fetchMounted, fetchRuns, data >>
    /\ UNCHANGED << configVars, windowVars, counterVars >>

NextFetch ==
    \/ \E strict \in BOOLEAN : FetchMount(strict)
    \/ FetchCleanup
    \/ \E i \in 1..MaxMounts : OnResponse(i)
    \/ \E i \in 1..MaxMounts, payload \in Payloads : OnJson(i, payload)
    \/ \E i \in 1..MaxMounts : OnReject(i)

SpecFetch == Init /\ [][NextFetch]_vars

(***************************************************************************)
(* The useWindowSize custom hook.  Each run of its effect defines its own  *)
(* onResize function, registers it on window and calls it once; the        *)
(* cleanup the effect returns removes that same function.                  *)
(***************************************************************************)
\* a cleanup that leaves the listener registered
CleanupLeaky(i) == listeners

\* () => window.removeEventListener('resize', onResize)
Cleanup(i) == listeners \ { i }

\* the component is rendered for the first time: useState([0, 0])
WinRender ==
    /\ winPc = "absent"
    /\ winRuns < MaxMounts
    /\ winPc' = "rendered"
    /\ size' = InitialSize
    /\ UNCHANGED << winRuns, listeners, inner, resizePending, effectSets >>
    /\ UNCHANGED << configVars, fetchVars, counterVars >>

\* the effect runs, after the first render or when Strict Mode mounts the
\* component again: addEventListener('resize', onResize); onResize()
WinEffect ==
    /\ winPc \in { "rendered", "detached" }
    /\ winRuns < MaxMounts
    /\ winPc' = "mounted"
    /\ winRuns' = winRuns + 1
    /\ listeners' = listeners \cup { winRuns + 1 }
    /\ size' = inner
    /\ effectSets' = [effectSets EXCEPT ![winRuns + 1] = @ + 1]
    /\ UNCHANGED << inner, resizePending >>
    /\ UNCHANGED << configVars, fetchVars, counterVars >>

\* the component unmounts and the effect's cleanup runs; Strict Mode's
\* unmount keeps the component's state and mounts it again
WinCleanup(strict) ==
    /\ winPc = "mounted"
    /\ winPc' = IF strict THEN "detached" ELSE "absent"
    /\ listeners' = Cleanup(winRuns)
    /\ UNCHANGED << winRuns, size, inner, resizePending, effectSets >>
    /\ UNCHANGED << configVars, fetchVars, counterVars >>

\* the user resizes the window
WindowResized(dims) ==
    /\ dims # inner
    /\ inner' = dims
    /\ resizePending' = TRUE
    /\ UNCHANGED << winPc, winRuns, listeners, size, effectSets >>
    /\ UNCHANGED << configVars, fetchVars, counterVars >>

\* the 'resize' event is dispatched: every registered onResize runs
\* setSize([window.innerWidth, window.innerHeight])
DispatchResize ==
    /\ resizePending
    /\ resizePending' = FALSE
    /\ size' = IF listeners # {} THEN inner ELSE size
    /\ UNCHANGED << winPc, winRuns, listeners, inner, effectSets >>
    /\ UNCHANGED << configVars, fetchVars, counterVars >>

NextWindow ==
    \/ WinRender
    \/ WinEffect
    \/ \E strict \in BOOLEAN : WinCleanup(strict)
    \/ \E dims \in WindowSizes : WindowResized(dims)
    \/ DispatchResize

SpecWindow == Init /\ [][NextWindow]_vars

(***************************************************************************)
(* The Counter components.  A click handler queues a state update; the     *)
(* next render applies the queued updates in order.  The function Counter  *)
(* queues the updater c => c + 1; the class Counter queues the state       *)
(* { count: this.state.count + 1 } computed from the state it sees.        *)
(***************************************************************************)
\* an update that is a function of the previous state
Updater == [kind |-> "updater", value |-> 0]

\* an update that is a value
Value(v) == [kind |-> "value", value |-> v]

RECURSIVE ApplyUpdates(_, _)
\* the state after the queued updates, applied in order
ApplyUpdates(state, updates) ==
    IF updates = << >> THEN state
    ELSE ApplyUpdates(IF Head(updates).kind = "updater" THEN state + 1
                      ELSE Head(updates).value,
                      Tail(updates))

\* () => setCount(count + 1), with the count of the render that made it
OnClickStale(rendered) == Value(rendered + 1)

\* () => setCount(c => c + 1)
OnClick(rendered) == Updater

\* the +1 button of the function Counter is clicked
Click ==
    /\ clicks < MaxClicks
    /\ Len(queue) < MaxQueue
    /\ queue' = Append(queue, OnClick(count))
    /\ clicks' = clicks + 1
    /\ UNCHANGED << count, classState, classQueue, classClicks >>
    /\ UNCHANGED << configVars, fetchVars, windowVars >>

\* the function Counter renders again: useState applies the queued updates
Render ==
    /\ queue # << >>
    /\ count' = ApplyUpdates(count, queue)
    /\ queue' = << >>
    /\ UNCHANGED << clicks, classState, classQueue, classClicks >>
    /\ UNCHANGED << configVars, fetchVars, windowVars >>

\* the +1 button of the class Counter is clicked:
\* this.setState({ count: this.state.count + 1 })
ClassClick ==
    /\ classClicks < MaxClicks
    /\ Len(classQueue) < MaxQueue
    /\ classQueue' = Append(classQueue, Value(classState.count + 1))
    /\ classClicks' = classClicks + 1
    /\ UNCHANGED << count, queue, clicks, classState >>
    /\ UNCHANGED << configVars, fetchVars, windowVars >>

\* the class Counter renders again with the queued states merged
ClassRender ==
    /\ classQueue # << >>
    /\ classState' = [count |-> ApplyUpdates(classState.count, classQueue)]
    /\ classQueue' = << >>
    /\ UNCHANGED << count, queue, clicks, classClicks >>
    /\ UNCHANGED << configVars, fetchVars, windowVars >>

NextCounter ==
    \/ Click
    \/ Render
    \/ ClassClick
    \/ ClassRender

SpecCounter == Init /\ [][NextCounter]_vars

(***************************************************************************)
(* Claims about the styling configuration.                                 *)
(***************************************************************************)
Loaded == moduleCache # NotLoaded

\* C1: whenever the configuration is loaded, and in every value a load
\* returned, darkMode is the string "class" and no other value
DarkModeIsClass ==
    /\ Loaded => moduleCache.props.darkMode = JsString("class")
    /\ \A i \in 1..Len(returned) :
         /\ returned[i].props.darkMode.kind = "string"
         /\ returned[i].props.darkMode.str = "class"
         /\ returned[i].props.darkMode.str # "media"

DarkModeIsClassWitness ==
    /\ Loaded
    /\ Len(returned) >= 2
    /\ moduleCache.props.darkMode.str = "class"

ScannedExtensions ==
    { << "a", "s", "t", "r", "o" >>, << "h", "t", "m", "l" >>, << "j", "s" >>,
      << "j", "s", "x" >>, << "t", "s" >>, << "t", "s", "x" >> }

RECURSIVE LastIndexOf(_, _, _)
LastIndexOf(s, c, from) ==
    IF from = 0 THEN 0
    ELSE IF s[from] = c THEN from
    ELSE LastIndexOf(s, c, from - 1)

\* the file lies under ./src, at any depth
UnderSrc(path) == Len(path) >= 2 /\ path[1] = << "s", "r", "c" >>

\* the characters after the last dot of the file's name are one of the six
HasScannedExtension(path) ==
    LET name == path[Len(path)]
        i == LastIndexOf(name, ".", Len(name))
    IN  i > 0 /\ SubSeq(name, i + 1, Len(name)) \in ScannedExtensions

\* no directory below ./src and not the file itself has a name that begins
\* with a dot
NoHiddenName(path) == \A i \in 2..Len(path) : Head(path[i]) # "."

\* the pattern as the claim spells it
ClaimedPattern ==
    << ".", "/", "s", "r", "c", "/", "*", "*", "/", "*", ".", "{" >>
    \o << "a", "s", "t", "r", "o", ",", "h", "t", "m", "l", ",", "j", "s", "," >>
    \o << "j", "s", "x", ",", "t", "s", ",", "t", "s", "x", "}" >>

ContentIsTheOnePattern ==
    /\ moduleCache.props.content.kind = "array"
    /\ Len(moduleCache.props.content.items) = 1
    /\ moduleCache.props.content.items[1] = ClaimedPattern

\* C2 as stated: content is the one pattern, and a file is selected exactly
\* when it lies under ./src at any depth with one of the six extensions
SelectedIffUnderSrcWithExtension ==
    /\ Loaded => ContentIsTheOnePattern
    /\ scan.done =>
         (scan.selected <=> UnderSrc(scan.path) /\ HasScannedExtension(scan.path))

\* C2 amended: content is the one pattern, and a file is selected exactly
\* when it lies under ./src at any depth with one of the six extensions and,
\* unless the consumer lets wildcards match hidden names, no name below ./src
\* on its path begins with a dot
SelectedIffVisibleUnderSrcWithExtension ==
    /\ Loaded => ContentIsTheOnePattern
    /\ scan.done =>
         (scan.selected <=>
            /\ UnderSrc(scan.path)
            /\ HasScannedExtension(scan.path)
            /\ (dot \/ NoHiddenName(scan.path)))

\* a file as deep below ./src as the walk goes was selected by a consumer
\* whose wildcards skip hidden names
SelectedDeepWitness ==
    /\ scan.done
    /\ scan.selected
    /\ ~dot
    /\ Len(scan.path) = MaxDepth + 1
    /\ scan.path[Len(scan.path)] = << "i", ".", "m", "d", ".", "j", "s" >>

\* C3: theme.extend is an empty mapping and plugins an empty list, so the
\* effective theme and plugins are the consumer's defaults
ExtendsNothing ==
    Loaded =>
        /\ moduleCache.props.theme.props.extend.kind = "object"
        /\ DOMAIN moduleCache.props.theme.props.extend.props = {}
        /\ moduleCache.props.plugins.kind = "array"
        /\ moduleCache.props.plugins.items = << >>
        /\ EffectiveTheme(moduleCache) = DefaultTheme
        /\ EffectivePlugins(moduleCache) = DefaultPlugins

ExtendsNothingWitness ==
    /\ Loaded
    /\ requires = 1
    /\ Len(EffectivePlugins(moduleCache)) = Len(DefaultPlugins)

\* the exported object has the four fields and none is a function
FourDataFields(config) ==
    /\ config.kind = "object"
    /\ DOMAIN config.props = { "darkMode", "content", "theme", "plugins" }
    /\ \A k \in DOMAIN config.props : config.props[k].kind # "function"

\* C4: every load returns the same value, an object of exactly the four
\* fields darkMode, content, theme and plugins with no function among them,
\* and a load changes nothing but the module cache and the load's result
DeclarativeData ==
    /\ [](\A i \in 1..Len(returned) :
            FourDataFields(returned[i]) /\ returned[i] = returned[1])
    /\ [][requires' # requires =>
            /\ UNCHANGED << dot, cwd, scan >>
            /\ moduleCache' = returned'[Len(returned')]
            /\ Loaded => moduleCache' = moduleCache]_vars

\* the module was loaded again from scratch after a file had been scanned
DeclarativeDataWitness ==
    /\ requires = MaxRequires
    /\ Len(returned) = MaxRequires
    /\ scan.done

(***************************************************************************)
(* Claims about the cheatsheet's examples.                                 *)
(***************************************************************************)
\* C5: a run of the effect never calls setData once its cleanup has run; its
\* second callback calls setData exactly once, with the fetched data, when it
\* runs before the cleanup, and not at all when it runs after
NoSetDataAfterCleanup ==
    /\ [](\A i \in 1..MaxMounts :
            /\ Len(fx[i].setDataCalls) <= 1
            /\ fx[i].setDataCalls # << >> =>
                  fx[i].pc = "done" /\ fx[i].setDataCalls = << fx[i].fetched >>)
    /\ [][\A i \in 1..MaxMounts :
            /\ fx[i].cleaned =>
                  fx'[i].setDataCalls = fx[i].setDataCalls
            /\ fx[i].pc = "parsing" /\ fx'[i].pc = "done" =>
                  IF fx[i].cleaned
                  THEN fx'[i].setDataCalls = << >> /\ data' = data
                  ELSE fx'[i].setDataCalls = << fx'[i].fetched >> /\ data' = fx'[i].fetched]_vars

\* one run's data arrived after its cleanup while a later run's arrived in time
NoSetDataAfterCleanupWitness ==
    \E i, j \in 1..MaxMounts :
        /\ i < j
        /\ fx[i].pc = "done" /\ fx[i].cleaned /\ fx[i].setDataCalls = << >>
        /\ fx[j].pc = "done" /\ ~fx[j].cleaned /\ Len(fx[j].setDataCalls) = 1
\* C6: while the component is mounted exactly one 'resize' listener of the
\* hook is registered, its own; when it is not mounted none is; and every
\* mount sets size once, to the window's current [innerWidth, innerHeight]
OneListenerWhileMounted ==
    /\ [](/\ winPc = "mounted" => listeners = { winRuns } /\ Cardinality(listeners) = 1
          /\ winPc # "mounted" => listeners = {}
          /\ \A i \in 1..MaxMounts : effectSets[i] = IF i <= winRuns THEN 1 ELSE 0)
    /\ [][winPc # "mounted" /\ winPc' = "mounted" =>
            size' = inner' /\ effectSets'[winRuns'] = 1]_vars

\* Strict Mode's mount, unmount, mount, after a resize of the window
OneListenerWhileMountedWitness ==
    /\ winPc = "mounted"
    /\ winRuns = 2
    /\ Cardinality(listeners) = 1
    /\ size = inner
    /\ size # InitialSize
\* C7: in the function Counter every invocation of the click handler adds
\* one to count: the count of the last render and the queued updates always
\* make up the number of invocations, and a render after k queued
\* invocations shows count + k
EveryClickCounts ==
    /\ [](ApplyUpdates(count, queue) = clicks /\ count + Len(queue) = clicks)
    /\ [][(clicks' # clicks =>
               ApplyUpdates(count', queue') = ApplyUpdates(count, queue) + 1)
           /\ (count' # count => count' = count + Len(queue))]_vars

\* after an earlier render, several invocations are queued for the next one
EveryClickCountsWitness ==
    /\ count >= 1
    /\ Len(queue) = MaxQueue
    /\ clicks = count + MaxQueue

====
